---------------------------- MODULE Spec2Model ----------------------------
(***************************************************************************)
(* Model of the calculation library of the Mutual Fund Calculator          *)
(* (docs/assets/js/app.js): calculateSIP, calculateTopUpSIP,               *)
(* calculateLumpsum, calculateSWP and calculateSTP.                        *)
(*                                                                         *)
(* A JavaScript number is modelled as a pair <<n, d>>: the rational n/d in *)
(* lowest terms with d > 0, or one of the IEEE-754 special values          *)
(*   <<0, 0>>  NaN        <<1, 0>>  +Infinity      <<-1, 0>>  -Infinity    *)
(* Every annual rate the model feeds to the library is a multiple of 600   *)
(* (monthly rate a multiple of 1/2) or of 50 (yearly rate a multiple of    *)
(* 1/2), so every intermediate value is a dyadic rational that a double    *)
(* holds exactly: on these inputs the rational arithmetic below is the     *)
(* arithmetic the JavaScript engine performs.                              *)
(***************************************************************************)
EXTENDS Integers, Sequences, FiniteSets, TLC

(***************************************************************************)
(* JavaScript number arithmetic                                            *)
(***************************************************************************)
Abs(i) == IF i < 0 THEN -i ELSE i

Sign(i) == IF i < 0 THEN -1 ELSE IF i > 0 THEN 1 ELSE 0

RECURSIVE GCD(_, _)
GCD(a, b) == IF b = 0 THEN a ELSE GCD(b, a % b)

\* the number n/d in canonical form; x/0 is NaN for x = 0 and +-Infinity otherwise
Norm(n, d) ==
    IF d = 0 THEN <<Sign(n), 0>>
    ELSE LET g == GCD(Abs(n), Abs(d))
             s == Sign(d)
         IN  <<(s * n) \div g, (s * d) \div g>>

NaN == <<0, 0>>

Num(i) == <<i, 1>>

IsNaN(x) == x = NaN

\* x + y
Add(x, y) ==
    IF x[2] = 0 /\ y[2] = 0
    THEN (IF x[1] = y[1] THEN x ELSE NaN)
    ELSE Norm(x[1] * y[2] + y[1] * x[2], x[2] * y[2])

Neg(x) == <<-x[1], x[2]>>

\* x - y
Sub(x, y) == Add(x, Neg(y))

\* x * y
Mul(x, y) ==
    IF x[2] = 0 \/ y[2] = 0 \/ x[1] = 0 \/ y[1] = 0
    THEN Norm(x[1] * y[1], x[2] * y[2])
    ELSE LET g1 == GCD(Abs(x[1]), y[2])
             g2 == GCD(Abs(y[1]), x[2])
         IN  Norm((x[1] \div g1) * (y[1] \div g2), (x[2] \div g2) * (y[2] \div g1))

\* x / y, with IEEE-754 division by zero: 0/0 = NaN, x/0 = +-Infinity
Div(x, y) == Mul(x, Norm(y[2], y[1]))

\* x < y, x <= y, x === y: every comparison with NaN is false; finite numbers
\* are compared by their integer parts and then by their fractional parts
Lt(x, y) ==
    /\ ~IsNaN(x) /\ ~IsNaN(y)
    /\ IF x[2] = 0 /\ y[2] = 0 THEN x[1] < y[1]
       ELSE IF x[2] = 0 \/ y[2] = 0 THEN x[1] * y[2] < y[1] * x[2]
       ELSE IF x[1] \div x[2] # y[1] \div y[2] THEN x[1] \div x[2] < y[1] \div y[2]
       ELSE LET g == GCD(x[2], y[2])
            IN  (x[1] % x[2]) * (y[2] \div g) < (y[1] % y[2]) * (x[2] \div g)

Le(x, y) ==
    /\ ~IsNaN(x) /\ ~IsNaN(y)
    /\ IF x[2] = 0 /\ y[2] = 0 THEN x[1] <= y[1]
       ELSE IF x[2] = 0 \/ y[2] = 0 THEN x[1] * y[2] <= y[1] * x[2]
       ELSE IF x[1] \div x[2] # y[1] \div y[2] THEN x[1] \div x[2] < y[1] \div y[2]
       ELSE LET g == GCD(x[2], y[2])
            IN  (x[1] % x[2]) * (y[2] \div g) <= (y[1] % y[2]) * (x[2] \div g)

Eq(x, y) == ~IsNaN(x) /\ ~IsNaN(y) /\ x = y

\* Math.pow(x, n) for a natural exponent n
RECURSIVE MathPow(_, _)
MathPow(x, n) == IF n = 0 THEN Num(1) ELSE Mul(x, MathPow(x, n - 1))

\* Math.floor, Math.ceil, Math.round (halves round towards +Infinity), Math.min
MathFloor(x) == IF x[2] = 0 THEN x ELSE Num(x[1] \div x[2])

MathCeil(x) == IF x[2] = 0 THEN x ELSE Num(-((-x[1]) \div x[2]))

MathRound(x) == IF x[2] = 0 THEN x ELSE Num((2 * x[1] + x[2]) \div (2 * x[2]))

MathMin(x, y) == IF IsNaN(x) \/ IsNaN(y) THEN NaN ELSE IF Le(x, y) THEN x ELSE y

\* x % y for finite x and y # 0: the remainder has the sign of the dividend
Rem(x, y) ==
    LET q == Div(x, y)
        t == IF q[1] < 0 THEN MathCeil(q) ELSE MathFloor(q)
    IN  Sub(x, Mul(y, t))

\* Math.ceil(-Math.log(x) / Math.log(b)) for a finite x and a finite b > 1.
\* Math.log(x) is NaN for x < 0 and -Infinity for x = 0; for 0 < x <= 1 the
\* result is the least natural m with -ln(x)/ln(b) <= m, that is with
\* x * b^m >= 1; for x > 1 it is -k for the greatest natural k with b^k <= x.
\* largest i with i^k <= n, searched upwards from i
RECURSIVE IRootFrom(_, _, _)
IRootFrom(n, k, i) == IF (i + 1) ^ k > n THEN i ELSE IRootFrom(n, k, i + 1)

\* Math.pow(x, 1 / k) for an integer k >= 1: the k-th root.  It is exact when x
\* is the k-th power of a rational, which is the case for every x the model
\* passes; otherwise numerator and denominator are each rounded down to a root.
MathRoot(x, k) ==
    IF k = 1 \/ IsNaN(x) THEN x
    ELSE IF x[2] = 0 THEN <<1, 0>>
    ELSE IF x[1] < 0 THEN NaN
    ELSE Norm(IRootFrom(x[1], k, 0), IRootFrom(x[2], k, 0))

RECURSIVE CeilLogFrom(_, _, _)
CeilLogFrom(x, b, m) ==
    IF Le(Num(1), Mul(x, MathPow(b, m))) THEN m ELSE CeilLogFrom(x, b, m + 1)

RECURSIVE FloorLogFrom(_, _, _)
FloorLogFrom(x, b, k) ==
    IF Lt(x, MathPow(b, k + 1)) THEN k ELSE FloorLogFrom(x, b, k + 1)

\* mutant of CeilNegLogRatio: Math.floor in place of Math.ceil
FloorNegLogRatio(x, b) ==
    IF IsNaN(x) \/ Lt(x, Num(0)) THEN NaN
    ELSE IF Eq(x, Num(0)) THEN <<1, 0>>
    ELSE IF Le(x, Num(1)) THEN Num(FloorLogFrom(Div(Num(1), x), b, 0))
    ELSE Num(-CeilLogFrom(Div(Num(1), x), b, 0))

CeilNegLogRatio(x, b) ==
    IF IsNaN(x) \/ Lt(x, Num(0)) THEN NaN
    ELSE IF Eq(x, Num(0)) THEN <<1, 0>>
    ELSE IF Le(x, Num(1)) THEN Num(CeilLogFrom(x, b, 0))
    ELSE Num(-FloorLogFrom(x, b, 0))

(***************************************************************************)
(* Input domains                                                           *)
(***************************************************************************)
\* largest monthly contribution / principal P
MaxP == 3

\* largest duration of a lump-sum investment, in years
MaxYears == 3

\* largest corpus and monthly withdrawal of a withdrawal plan
MaxCorpus == 40

MaxWithdrawal == 24

\* largest lump sum, monthly transfer and duration (months) of a transfer plan
MaxLumpSum == 4

MaxTransfer == 3

MaxMonths == 3

\* annual rates in percent whose monthly rate (rate / 100 / 12) is 0, 1/2 or 1
MonthlyRates == {0, 600, 1200}

\* annual rates in percent whose yearly rate (rate / 100) is 0, 1/2 or 1
YearlyRates == {0, 50, 100}

\* <<annualRate, years>> of the periodic-investment calls
SIPRateYears == {<<0, 1>>, <<0, 2>>, <<600, 1>>, <<1200, 1>>, <<1200, 2>>, <<2400, 1>>}

\* durations of the step-up calls, in years
TopUpYears == {1, 2}

\* <<corpus, monthlyWithdrawal, annualRate>> of the withdrawal-plan calls: a grid,
\* and the zero-rate case of the test suite (TC-SWP-05)
SWPArgs ==
    ((1..MaxCorpus) \X (1..MaxWithdrawal) \X MonthlyRates) \cup {<<100000, 5000, 0>>}

\* yearly growth factors of the growth-rate calls: total loss, halving, no
\* change, +50% and doubling
GrowthFactors == {<<0, 1>>, <<1, 2>>, <<1, 1>>, <<3, 2>>, <<2, 1>>}

\* <<beginValue, endValue, years>> of the growth-rate calls: the end value is the
\* begin value compounded by one of the factors
CAGRArgs ==
    {<<b, Mul(Num(b), MathPow(g, n)), n>> :
        <<b, g, n>> \in (1..MaxP) \X GrowthFactors \X (1..MaxYears)}

(***************************************************************************)
(* The functions without a loop                                            *)
(***************************************************************************)
calculateSIP(P, annualRate, years) ==
    LET r == Div(Div(annualRate, Num(100)), Num(12))
        n == Mul(years, Num(12))
        futureValue ==
            Mul(Mul(P, Div(Sub(MathPow(Add(Num(1), r), n[1]), Num(1)), r)),
                Add(Num(1), r))
        totalInvested == Mul(P, n)
        estimatedReturns == Sub(futureValue, totalInvested)
    IN  [futureValue |-> futureValue, totalInvested |-> totalInvested,
         estimatedReturns |-> estimatedReturns]

calculateLumpsum(P, annualRate, years) ==
    LET r == Div(annualRate, Num(100))
        futureValue == Mul(P, MathPow(Add(Num(1), r), years[1]))
        estimatedReturns == Sub(futureValue, P)
    IN  [futureValue |-> futureValue, totalInvested |-> P,
         estimatedReturns |-> estimatedReturns]

\* mutant of calculateCAGR: the total return, not annualised
calculateCAGRTotal(beginValue, endValue, years) ==
    Mul(Sub(Div(endValue, beginValue), Num(1)), Num(100))

calculateCAGR(beginValue, endValue, years) ==
    Mul(Sub(MathRoot(Div(endValue, beginValue), years[1]), Num(1)), Num(100))

\* mutant of calculateInflationAdjusted: the value is compounded, not discounted
calculateInflationCompounded(nominalValue, inflationRate, years) ==
    LET inflationAdjustedValue ==
            Mul(nominalValue,
                MathPow(Add(Num(1), Div(inflationRate, Num(100))), years[1]))
    IN  [inflationAdjustedValue |-> inflationAdjustedValue,
         purchasingPowerLoss |-> Sub(nominalValue, inflationAdjustedValue)]

calculateInflationAdjusted(nominalValue, inflationRate, years) ==
    LET inflationAdjustedValue ==
            Div(nominalValue,
                MathPow(Add(Num(1), Div(inflationRate, Num(100))), years[1]))
        purchasingPowerLoss == Sub(nominalValue, inflationAdjustedValue)
    IN  [inflationAdjustedValue |-> inflationAdjustedValue,
         purchasingPowerLoss |-> purchasingPowerLoss]

\* mutant of SWPMonths: Math.round in place of Math.ceil in the r = 0 branch
SWPMonthsRounded(corpus, monthlyWithdrawal, r) ==
    IF Eq(r, Num(0))
    THEN MathRound(Div(corpus, monthlyWithdrawal))
    ELSE CeilNegLogRatio(Sub(Num(1), Div(Mul(corpus, r), monthlyWithdrawal)),
                         Add(Num(1), r))

\* the number of months of a finite withdrawal plan: Math.ceil(n)
SWPMonths(corpus, monthlyWithdrawal, r) ==
    IF Eq(r, Num(0))
    THEN MathCeil(Div(corpus, monthlyWithdrawal))
    ELSE CeilNegLogRatio(Sub(Num(1), Div(Mul(corpus, r), monthlyWithdrawal)),
                         Add(Num(1), r))

\* mutant of SWPIndefinite: < in place of <=
SWPIndefiniteStrict(corpus, monthlyWithdrawal, r) ==
    Lt(monthlyWithdrawal, Mul(corpus, r))

\* the guard of the indefinite branch
SWPIndefinite(corpus, monthlyWithdrawal, r) == Le(monthlyWithdrawal, Mul(corpus, r))

\* mutant of SWPFinite: Math.round in place of Math.floor for the whole years
SWPFiniteRounded(monthlyWithdrawal, months) ==
    LET years == MathRound(Div(months, Num(12)))
        remainingMonths == Rem(months, Num(12))
        totalWithdrawn == Mul(monthlyWithdrawal, months)
    IN  [months |-> months, years |-> years, remainingMonths |-> remainingMonths,
         totalWithdrawn |-> totalWithdrawn, isIndefinite |-> FALSE]

\* the result of a finite withdrawal plan of `months` months
SWPFinite(monthlyWithdrawal, months) ==
    LET years == MathFloor(Div(months, Num(12)))
        remainingMonths == Rem(months, Num(12))
        totalWithdrawn == Mul(monthlyWithdrawal, months)
    IN  [months |-> months, years |-> years, remainingMonths |-> remainingMonths,
         totalWithdrawn |-> totalWithdrawn, isIndefinite |-> FALSE]

calculateSWP(corpus, monthlyWithdrawal, annualRate) ==
    LET r == Div(Div(annualRate, Num(100)), Num(12))
    IN  IF SWPIndefinite(corpus, monthlyWithdrawal, r)
        THEN [months |-> Num(0), years |-> Num(0), remainingMonths |-> Num(0),
              totalWithdrawn |-> Num(0), isIndefinite |-> TRUE]
        ELSE SWPFinite(monthlyWithdrawal, SWPMonths(corpus, monthlyWithdrawal, r))

(***************************************************************************)
(* State: the call in progress, its result, and the locals of the loops    *)
(***************************************************************************)
VARIABLES
    pc,                \* "idle" before the call, its loop position, "done" after
    call,              \* the function called last and its arguments
    ret,               \* the value it returned (fn = "none" while it runs)
    \* locals of calculateSTP
    m, debtCorpus, equityCorpus, totalTransferred, breakdown,
    history,           \* the locals transfer, debtCorpus, equityCorpus after each iteration
    \* locals of calculateTopUpSIP
    y, mi, corpus, totalInvested, yearlyInvested, monthlySIP, yearlyBreakdown,
    \* the fixed-point run of calculateTopUpSIP(5000, 12, 10, 0) and
    \* calculateSIP(5000, 12, 10): see the section on enclosures
    fx

stpVars == <<m, debtCorpus, equityCorpus, totalTransferred, breakdown, history>>

topUpVars == <<y, mi, corpus, totalInvested, yearlyInvested, monthlySIP, yearlyBreakdown>>

vars == <<pc, call, ret, stpVars, topUpVars, fx>>

NoCall == [fn |-> "none"]

\* the fixed-point run before it starts
FxIdle == [pc |-> "idle"]

Init ==
    /\ pc = "idle"
    /\ call = NoCall
    /\ ret = NoCall
    /\ m = Num(0) /\ debtCorpus = Num(0) /\ equityCorpus = Num(0)
    /\ totalTransferred = Num(0) /\ breakdown = <<>> /\ history = <<>>
    /\ y = Num(0) /\ mi = Num(0) /\ corpus = Num(0) /\ totalInvested = Num(0)
    /\ yearlyInvested = Num(0) /\ monthlySIP = Num(0) /\ yearlyBreakdown = <<>>
    /\ fx = FxIdle

(***************************************************************************)
(* Calls of the functions without a loop                                   *)
(***************************************************************************)
CallSIP(P, annualRate, years) ==
    /\ pc = "idle"
    /\ call' = [fn |-> "calculateSIP", P |-> P, annualRate |-> annualRate,
                years |-> years]
    /\ ret' = calculateSIP(P, annualRate, years)
    /\ pc' = "done"
    /\ UNCHANGED <<stpVars, topUpVars, fx>>

CallLumpsum(P, annualRate, years) ==
    /\ pc = "idle"
    /\ call' = [fn |-> "calculateLumpsum", P |-> P, annualRate |-> annualRate,
                years |-> years]
    /\ ret' = calculateLumpsum(P, annualRate, years)
    /\ pc' = "done"
    /\ UNCHANGED <<stpVars, topUpVars, fx>>

CallCAGR(beginValue, endValue, years) ==
    /\ pc = "idle"
    /\ call' = [fn |-> "calculateCAGR", beginValue |-> beginValue,
                endValue |-> endValue, years |-> years]
    /\ ret' = calculateCAGR(beginValue, endValue, years)
    /\ pc' = "done"
    /\ UNCHANGED <<stpVars, topUpVars, fx>>

CallInflationAdjusted(nominalValue, inflationRate, years) ==
    /\ pc = "idle"
    /\ call' = [fn |-> "calculateInflationAdjusted", nominalValue |-> nominalValue,
                inflationRate |-> inflationRate, years |-> years]
    /\ ret' = calculateInflationAdjusted(nominalValue, inflationRate, years)
    /\ pc' = "done"
    /\ UNCHANGED <<stpVars, topUpVars, fx>>

CallSWP(c, w, annualRate) ==
    /\ pc = "idle"
    /\ call' = [fn |-> "calculateSWP", corpus |-> c, monthlyWithdrawal |-> w,
                annualRate |-> annualRate]
    /\ ret' = calculateSWP(c, w, annualRate)
    /\ pc' = "done"
    /\ UNCHANGED <<stpVars, topUpVars, fx>>

(***************************************************************************)
(* calculateSTP: one action per iteration of the month loop                *)
(***************************************************************************)
STPBegin(lumpSum, monthlyTransfer, debtRate, equityRate, months) ==
    /\ pc = "idle"
    /\ pc' = "stp"
    /\ call' = [fn |-> "calculateSTP", lumpSum |-> lumpSum,
                monthlyTransfer |-> monthlyTransfer, debtRate |-> debtRate,
                equityRate |-> equityRate, months |-> months]
    /\ ret' = NoCall
    /\ debtCorpus' = lumpSum
    /\ equityCorpus' = Num(0)
    /\ totalTransferred' = Num(0)
    /\ breakdown' = <<>>
    /\ history' = <<>>
    /\ m' = Num(1)
    /\ UNCHANGED <<topUpVars, fx>>

\* mutant of STPTransfer: the transfer is not capped by the debt corpus
STPTransferUncapped(monthlyTransfer, grown) == monthlyTransfer

\* the amount moved in one month, given the debt corpus after its growth
STPTransfer(monthlyTransfer, grown) == MathMin(monthlyTransfer, grown)

\* mutant of STPAccumulate: the nominal amount is added, not the actual transfer
STPAccumulateNominal(total, monthlyTransfer, transfer) == Add(total, monthlyTransfer)

\* the running total after a month's transfer
STPAccumulate(total, monthlyTransfer, transfer) == Add(total, transfer)

\* mutant of STPEntry: totalCorpus is the sum of the rounded parts
STPEntrySumOfRounded(mm, debt, equity) ==
    [month |-> mm, debtCorpus |-> MathRound(debt),
     equityCorpus |-> MathRound(equity),
     totalCorpus |-> Add(MathRound(debt), MathRound(equity))]

\* the breakdown entry pushed at the end of month mm
STPEntry(mm, debt, equity) ==
    [month |-> mm, debtCorpus |-> MathRound(debt),
     equityCorpus |-> MathRound(equity),
     totalCorpus |-> MathRound(Add(debt, equity))]

\* mutant of STPStep: the transfer is capped by the debt corpus before its growth
STPStepCapBeforeGrowth(debt, equity, monthlyTransfer, dr, er) ==
    LET transfer == STPTransfer(monthlyTransfer, debt)
    IN  [transfer |-> transfer,
         debtCorpus |-> Sub(Mul(debt, Add(Num(1), dr)), transfer),
         equityCorpus |-> Mul(Add(equity, transfer), Add(Num(1), er))]

\* mutant of STPStep: the equity corpus grows before the transfer is added
STPStepEquityGrowsFirst(debt, equity, monthlyTransfer, dr, er) ==
    LET grown == Mul(debt, Add(Num(1), dr))
        transfer == STPTransfer(monthlyTransfer, grown)
    IN  [transfer |-> transfer,
         debtCorpus |-> Sub(grown, transfer),
         equityCorpus |-> Add(Mul(equity, Add(Num(1), er)), transfer)]

\* the locals transfer, debtCorpus and equityCorpus after one month's steps
STPStep(debt, equity, monthlyTransfer, dr, er) ==
    LET grown == Mul(debt, Add(Num(1), dr))
        transfer == STPTransfer(monthlyTransfer, grown)
    IN  [transfer |-> transfer,
         debtCorpus |-> Sub(grown, transfer),
         equityCorpus |-> Mul(Add(equity, transfer), Add(Num(1), er))]

STPMonth ==
    /\ pc = "stp"
    /\ Le(m, call.months)
    /\ LET dr == Div(Div(call.debtRate, Num(100)), Num(12))
           er == Div(Div(call.equityRate, Num(100)), Num(12))
           step == STPStep(debtCorpus, equityCorpus, call.monthlyTransfer, dr, er)
       IN  /\ debtCorpus' = step.debtCorpus
           /\ totalTransferred' =
                  STPAccumulate(totalTransferred, call.monthlyTransfer, step.transfer)
           /\ equityCorpus' = step.equityCorpus
           /\ breakdown' =
                  Append(breakdown, STPEntry(m, step.debtCorpus, step.equityCorpus))
           /\ history' = Append(history, step)
    /\ m' = Add(m, Num(1))
    /\ UNCHANGED <<pc, call, ret, topUpVars, fx>>

\* the object calculateSTP returns
STPResult(lumpSum, debtRate, equityRate, months, debt, equity, total, bd) ==
    [debtCorpus |-> debt, equityCorpus |-> equity,
     totalCorpus |-> Add(debt, equity),
     totalTransferred |-> total, breakdown |-> bd,
     directEquityValue |->
         Mul(lumpSum, MathPow(Add(Num(1), Div(Div(equityRate, Num(100)), Num(12))),
                              months[1])),
     debtOnlyValue |->
         Mul(lumpSum, MathPow(Add(Num(1), Div(Div(debtRate, Num(100)), Num(12))),
                              months[1]))]

STPReturn ==
    /\ pc = "stp"
    /\ ~Le(m, call.months)
    /\ ret' = STPResult(call.lumpSum, call.debtRate, call.equityRate, call.months,
                        debtCorpus, equityCorpus, totalTransferred, breakdown)
    /\ pc' = "done"
    /\ UNCHANGED <<call, stpVars, topUpVars, fx>>

(***************************************************************************)
(* calculateTopUpSIP: one action per step of the year and month loops      *)
(***************************************************************************)
TopUpBegin(P, annualRate, years, topUpRate) ==
    /\ pc = "idle"
    /\ pc' = "topup_year"
    /\ call' = [fn |-> "calculateTopUpSIP", P |-> P, annualRate |-> annualRate,
                years |-> years, topUpRate |-> topUpRate]
    /\ ret' = NoCall
    /\ corpus' = Num(0)
    /\ totalInvested' = Num(0)
    /\ yearlyBreakdown' = <<>>
    /\ y' = Num(1)
    /\ UNCHANGED <<mi, yearlyInvested, monthlySIP, stpVars, fx>>

\* mutant of TopUpMonthlySIP: the step-up is applied from the first year on
TopUpMonthlySIPFromFirstYear(P, topUpRate, yy) ==
    MathRound(Mul(P, MathPow(Add(Num(1), Div(topUpRate, Num(100))), yy[1])))

\* the monthly contribution of year yy
TopUpMonthlySIP(P, topUpRate, yy) ==
    MathRound(Mul(P, MathPow(Add(Num(1), Div(topUpRate, Num(100))), yy[1] - 1)))

TopUpYear ==
    /\ pc = "topup_year"
    /\ Le(y, call.years)
    /\ monthlySIP' = TopUpMonthlySIP(call.P, call.topUpRate, y)
    /\ yearlyInvested' = Num(0)
    /\ mi' = Num(0)
    /\ pc' = "topup_month"
    /\ UNCHANGED <<call, ret, y, corpus, totalInvested, yearlyBreakdown, stpVars, fx>>

\* mutant of TopUpStep: the corpus is rounded every month
TopUpStepRounded(c, sip, r) == MathRound(Mul(Add(c, sip), Add(Num(1), r)))

\* mutant of TopUpStep: the corpus grows but the contribution is not added
TopUpStepGrowthOnly(c, sip, r) == Mul(c, Add(Num(1), r))

\* the corpus after one month: the contribution is added, then it grows
TopUpStep(c, sip, r) == Mul(Add(c, sip), Add(Num(1), r))

TopUpMonth ==
    /\ pc = "topup_month"
    /\ Lt(mi, Num(12))
    /\ LET r == Div(Div(call.annualRate, Num(100)), Num(12))
       IN  corpus' = TopUpStep(corpus, monthlySIP, r)
    /\ yearlyInvested' = Add(yearlyInvested, monthlySIP)
    /\ mi' = Add(mi, Num(1))
    /\ UNCHANGED <<pc, call, ret, y, totalInvested, monthlySIP, yearlyBreakdown, stpVars, fx>>

\* mutant of TopUpEntry: the entry is pushed before the corpus is rounded
TopUpEntryUnrounded(yy, sip, invested, c) ==
    [year |-> yy, monthlySIP |-> sip, yearlyInvested |-> invested,
     corpusAtEndOfYear |-> c]

\* the breakdown entry of year yy, whose 12 months left the corpus at c
TopUpEntry(yy, sip, invested, c) ==
    [year |-> yy, monthlySIP |-> sip, yearlyInvested |-> invested,
     corpusAtEndOfYear |-> MathRound(c)]

TopUpYearEnd ==
    /\ pc = "topup_month"
    /\ ~Lt(mi, Num(12))
    /\ totalInvested' = Add(totalInvested, yearlyInvested)
    /\ corpus' = MathRound(corpus)
    /\ yearlyBreakdown' =
           Append(yearlyBreakdown, TopUpEntry(y, monthlySIP, yearlyInvested, corpus))
    /\ y' = Add(y, Num(1))
    /\ pc' = "topup_year"
    /\ UNCHANGED <<call, ret, mi, yearlyInvested, monthlySIP, stpVars, fx>>

\* the object calculateTopUpSIP returns
TopUpResult(c, invested, bd) ==
    [futureValue |-> c, totalInvested |-> invested,
     estimatedReturns |-> Sub(c, invested), yearlyBreakdown |-> bd]

TopUpReturn ==
    /\ pc = "topup_year"
    /\ ~Le(y, call.years)
    /\ ret' = TopUpResult(corpus, totalInvested, yearlyBreakdown)
    /\ pc' = "done"
    /\ UNCHANGED <<call, topUpVars, stpVars, fx>>

(***************************************************************************)
(* Fixed-point enclosures of calculateTopUpSIP(5000, 12, 10, 0) and        *)
(* calculateSIP(5000, 12, 10).                                             *)
(*                                                                         *)
(* At 12% the monthly rate is r = 12 / 100 / 12 = 1/100 and (1 + r)^120    *)
(* has 240 decimals, beyond the integers of the model checker.  The run    *)
(* below therefore carries every number x as a pair lo <= x * scale <= hi  *)
(* of integers and widens the pair by one unit at every operation, which   *)
(* covers the rounding of a double (relative error 2^-53) many times over. *)
(* Amounts have scale 1000; the power (1 + r)^k has scale 5 * 10^8.        *)
(***************************************************************************)
\* lower and upper bound of x * (1 + r) for r = 1/100, given such bounds of x
GrowLo(x) == x + (x \div 100) - 1

GrowHi(x) == x - ((-x) \div 100) + 1

\* corpus = (corpus + monthlySIP) * (1 + r) on a pair, amounts at scale 1000
FxStep(c, sip) == <<GrowLo(c[1] + sip * 1000), GrowHi(c[2] + sip * 1000)>>

\* Math.round(corpus) on a pair at scale 1000
FxRound(c) == <<((c[1] + 500) \div 1000) * 1000, ((c[2] + 500) \div 1000) * 1000>>

\* mutant of FxSIP: the factor (1 + r) of the annuity-due formula is missing
FxSIPOrdinary(pw) == <<pw[1] - 500000000, pw[2] - 500000000>>

\* P * ((pow - 1) / r) * (1 + r) for P = 5000 and r = 1/100, from the pair pw of
\* pow = Math.pow(1 + r, n): P / r * 1000 = 5 * 10^8, so P * (pow - 1) / r at
\* scale 1000 is pow - 1 at scale 5 * 10^8
FxSIP(pw) == <<GrowLo(pw[1] - 500000000), GrowHi(pw[2] - 500000000)>>

FxBegin ==
    /\ pc = "idle"
    /\ fx.pc = "idle"
    /\ pc' = "fixed"
    /\ fx' = [pc |-> "year", P |-> 5000, years |-> 10, n |-> 10 * 12,
              y |-> 1, mi |-> 0, monthlySIP |-> 0, corpus |-> <<0, 0>>,
              k |-> 0, pow |-> <<500000000, 500000000>>, sip |-> <<0, 0>>]
    /\ UNCHANGED <<call, ret, stpVars, topUpVars>>

\* start of a year of calculateTopUpSIP; with topUpRate = 0 the monthly
\* contribution is Math.round(P * 1) = P
FxYear ==
    /\ fx.pc = "year"
    /\ fx.y <= fx.years
    /\ fx' = [fx EXCEPT !.pc = "month", !.mi = 0, !.monthlySIP = fx.P]
    /\ UNCHANGED <<pc, call, ret, stpVars, topUpVars>>

FxMonth ==
    /\ fx.pc = "month"
    /\ fx.mi < 12
    /\ fx' = [fx EXCEPT !.corpus = FxStep(fx.corpus, fx.monthlySIP), !.mi = fx.mi + 1]
    /\ UNCHANGED <<pc, call, ret, stpVars, topUpVars>>

FxYearEnd ==
    /\ fx.pc = "month"
    /\ ~(fx.mi < 12)
    /\ fx' = [fx EXCEPT !.corpus = FxRound(fx.corpus), !.y = fx.y + 1, !.pc = "year"]
    /\ UNCHANGED <<pc, call, ret, stpVars, topUpVars>>

\* calculateTopUpSIP has returned futureValue = corpus; calculateSIP starts
FxTopUpReturn ==
    /\ fx.pc = "year"
    /\ ~(fx.y <= fx.years)
    /\ fx' = [fx EXCEPT !.pc = "pow"]
    /\ UNCHANGED <<pc, call, ret, stpVars, topUpVars>>

\* Math.pow(1 + r, n), one factor at a time
FxPow ==
    /\ fx.pc = "pow"
    /\ fx.k < fx.n
    /\ fx' = [fx EXCEPT !.pow = <<GrowLo(fx.pow[1]), GrowHi(fx.pow[2])>>,
                        !.k = fx.k + 1]
    /\ UNCHANGED <<pc, call, ret, stpVars, topUpVars>>

FxSIPReturn ==
    /\ fx.pc = "pow"
    /\ ~(fx.k < fx.n)
    /\ fx' = [fx EXCEPT !.sip = FxSIP(fx.pow), !.pc = "done"]
    /\ UNCHANGED <<pc, call, ret, stpVars, topUpVars>>

NextFx ==
    \/ FxBegin
    \/ FxYear
    \/ FxMonth
    \/ FxYearEnd
    \/ FxTopUpReturn
    \/ FxPow
    \/ FxSIPReturn

SpecFx == Init /\ [][NextFx]_vars

(***************************************************************************)
(* One behaviour is one call of the library                                *)
(***************************************************************************)
Next ==
    \/ \E P \in 1..MaxP, ry \in SIPRateYears :
           CallSIP(Num(P), Num(ry[1]), Num(ry[2]))
    \/ \E P \in 1..MaxP, rate \in YearlyRates, years \in 1..MaxYears :
           CallLumpsum(Num(P), Num(rate), Num(years))
    \/ \E a \in CAGRArgs :
           CallCAGR(Num(a[1]), a[2], Num(a[3]))
    \/ \E v \in 0..MaxLumpSum, rate \in YearlyRates, years \in 0..MaxYears :
           CallInflationAdjusted(Num(v), Num(rate), Num(years))
    \/ \E a \in SWPArgs :
           CallSWP(Num(a[1]), Num(a[2]), Num(a[3]))
    \/ \E l \in 0..MaxLumpSum, t \in 0..MaxTransfer, dr \in MonthlyRates,
          er \in MonthlyRates, months \in 1..MaxMonths :
           STPBegin(Num(l), Num(t), Num(dr), Num(er), Num(months))
    \/ STPMonth
    \/ STPReturn
    \/ \E P \in 1..MaxP, rate \in MonthlyRates, years \in TopUpYears,
          topUp \in YearlyRates :
           TopUpBegin(Num(P), Num(rate), Num(years), Num(topUp))
    \/ TopUpYear
    \/ TopUpMonth
    \/ TopUpYearEnd
    \/ TopUpReturn

Spec == Init /\ [][Next]_vars

(***************************************************************************)
(* Properties                                                              *)
(***************************************************************************)
\* the call of function f has returned
Returned(f) == pc = "done" /\ call.fn = f

\* the monthly rate annualRate / 100 / 12 of the call
MonthlyRate == Div(Div(call.annualRate, Num(100)), Num(12))

\* C1: calculateSIP at annualRate = 0 (P > 0, years > 0) returns
\* futureValue = P * n with n = years * 12, totalInvested = P * n and
\* estimatedReturns = 0.
C1_ZeroRateSIP ==
    (Returned("calculateSIP") /\ Eq(call.annualRate, Num(0)))
        => LET n == Mul(call.years, Num(12))
           IN  /\ Eq(ret.futureValue, Mul(call.P, n))
               /\ Eq(ret.totalInvested, Mul(call.P, n))
               /\ Eq(ret.estimatedReturns, Num(0))

\* C2: calculateSIP returns futureValue >= totalInvested, with equality exactly
\* when the rate is 0.
C2_SIPAtLeastInvested ==
    Returned("calculateSIP")
        => /\ Le(ret.totalInvested, ret.futureValue)
           /\ Eq(ret.futureValue, ret.totalInvested) <=> Eq(call.annualRate, Num(0))

\* C3: calculateSIP, calculateTopUpSIP and calculateLumpsum return
\* estimatedReturns equal to futureValue - totalInvested of the same result.
C3_ReturnsAreDifference ==
    (Returned("calculateSIP") \/ Returned("calculateTopUpSIP")
                               \/ Returned("calculateLumpsum"))
        => Eq(ret.estimatedReturns, Sub(ret.futureValue, ret.totalInvested))

\* C4: calculateSWP (C > 0, W > 0) returns isIndefinite = true with months,
\* years, remainingMonths and totalWithdrawn all 0 exactly when W <= C * r,
\* the boundary W = C * r included; otherwise it returns isIndefinite = false
\* with months >= 1.
C4_IndefiniteExactly ==
    Returned("calculateSWP")
        => LET covered == Le(call.monthlyWithdrawal, Mul(call.corpus, MonthlyRate))
           IN  /\ ret.isIndefinite <=> covered
               /\ ret.isIndefinite
                    => /\ Eq(ret.months, Num(0)) /\ Eq(ret.years, Num(0))
                       /\ Eq(ret.remainingMonths, Num(0))
                       /\ Eq(ret.totalWithdrawn, Num(0))
               /\ ~ret.isIndefinite => Le(Num(1), ret.months)

\* a call on the boundary W = C * r with r > 0 has returned an indefinite result
C4_Witness ==
    /\ Returned("calculateSWP")
    /\ Lt(Num(0), MonthlyRate)
    /\ Eq(call.monthlyWithdrawal, Mul(call.corpus, MonthlyRate))
    /\ ret.isIndefinite

\* C5: calculateSWP at annualRate = 0 (C > 0, W > 0) is finite and returns
\* months = ceil(C / W), the integer with (months - 1) * W < C <= months * W;
\* corpus 100000 with withdrawal 5000 gives 20 months.
C5_ZeroRateSWP ==
    (Returned("calculateSWP") /\ Eq(call.annualRate, Num(0)))
        => /\ ~ret.isIndefinite
           /\ ret.months[2] = 1
           /\ Lt(Mul(Sub(ret.months, Num(1)), call.monthlyWithdrawal), call.corpus)
           /\ Le(call.corpus, Mul(ret.months, call.monthlyWithdrawal))
           /\ (call.corpus = Num(100000) /\ call.monthlyWithdrawal = Num(5000))
                  => ret.months = Num(20)

\* the zero-rate call with corpus 100000 and withdrawal 5000 has returned
C5_Witness ==
    /\ Returned("calculateSWP")
    /\ Eq(call.annualRate, Num(0))
    /\ call.corpus = Num(100000)
    /\ call.monthlyWithdrawal = Num(5000)

\* the balance after k steps balance := balance * (1 + r) - W from balance = C
RECURSIVE Balance(_, _, _, _)
Balance(C, W, r, k) ==
    IF k = 0 THEN C ELSE Sub(Mul(Balance(C, W, r, k - 1), Add(Num(1), r)), W)

C7_FiniteResultConsistent ==
    (Returned("calculateSWP") /\ ~ret.isIndefinite)
        => /\ Eq(ret.months, Add(Mul(Num(12), ret.years), ret.remainingMonths))
           /\ ret.years[2] = 1 /\ ret.remainingMonths[2] = 1
           /\ Le(Num(0), ret.remainingMonths) /\ Le(ret.remainingMonths, Num(11))
           /\ Eq(ret.totalWithdrawn, Mul(call.monthlyWithdrawal, ret.months))

\* a finite plan of more than a year with a part-year remainder has returned
C7_Witness ==
    /\ Returned("calculateSWP") /\ ~ret.isIndefinite
    /\ Le(Num(1), ret.years)
    /\ Lt(Num(0), ret.remainingMonths)
    /\ Lt(call.corpus, ret.totalWithdrawn)

\* calculateSTP has been called: its loop is running or it has returned
InSTP == call.fn = "calculateSTP"

\* the month loop of calculateSTP has run to its end
STPLoopDone == InSTP /\ ~Le(m, call.months)

\* C8: in calculateSTP (lumpSum, monthlyTransfer, debtRate >= 0) the amount
\* moved each month is min(monthlyTransfer, debt corpus after growth): it is at
\* most monthlyTransfer, at most the grown debt corpus, and equal to one of
\* them; so the debt corpus is >= 0 after every month.
C8_TransferCapped ==
    InSTP
        => /\ Le(Num(0), debtCorpus)
           /\ \A i \in 1..Len(history) :
                  /\ Le(history[i].transfer, call.monthlyTransfer)
                  /\ Le(Num(0), history[i].debtCorpus)
                  /\ \/ Eq(history[i].transfer, call.monthlyTransfer)
                     \/ Eq(history[i].debtCorpus, Num(0))

\* a month has moved less than monthlyTransfer, the whole positive remainder of
\* the source, and left the debt corpus at 0
C8_Witness ==
    /\ InSTP
    /\ \E i \in 1..Len(history) :
           /\ Lt(history[i].transfer, call.monthlyTransfer)
           /\ Lt(Num(0), history[i].transfer)
           /\ Eq(history[i].debtCorpus, Num(0))

\* the debt corpus after month k (the lump sum for k = 0)
DebtAfter(k) == IF k = 0 THEN call.lumpSum ELSE history[k].debtCorpus

\* the cap never bound: every month moved the full monthlyTransfer
CapNeverBound == \A i \in 1..Len(history) : Eq(history[i].transfer, call.monthlyTransfer)

\* the source was empty before the last month began
DepletedBeforeLast == \E k \in 0..(Len(history) - 1) : Eq(DebtAfter(k), Num(0))

\* C9 as stated: totalTransferred is <= monthlyTransfer * m after every month
\* m, equals monthlyTransfer * months if the cap never bound, and is strictly
\* less than monthlyTransfer * months if the source depleted before the last
\* month.
C9_Original ==
    InSTP
        => /\ Le(totalTransferred, Mul(call.monthlyTransfer, Num(Len(history))))
           /\ STPLoopDone
                => /\ CapNeverBound
                        => Eq(totalTransferred, Mul(call.monthlyTransfer, call.months))
                   /\ DepletedBeforeLast
                        => Lt(totalTransferred, Mul(call.monthlyTransfer, call.months))

\* C9 amended: totalTransferred is <= monthlyTransfer * m after every month m,
\* equals monthlyTransfer * months if the cap never bound, and is strictly less
\* than monthlyTransfer * months if monthlyTransfer > 0 and the source depleted
\* before the last month.
C9_TotalTransferred ==
    InSTP
        => /\ Le(totalTransferred, Mul(call.monthlyTransfer, Num(Len(history))))
           /\ STPLoopDone
                => /\ CapNeverBound
                        => Eq(totalTransferred, Mul(call.monthlyTransfer, call.months))
                   /\ (Lt(Num(0), call.monthlyTransfer) /\ DepletedBeforeLast)
                        => Lt(totalTransferred, Mul(call.monthlyTransfer, call.months))

\* the loop has ended after a source that held money was emptied before the
\* last month, with a positive total below monthlyTransfer * months
C9_Witness ==
    /\ STPLoopDone
    /\ Lt(Num(0), call.lumpSum)
    /\ DepletedBeforeLast
    /\ Lt(Num(0), totalTransferred)
    /\ Lt(totalTransferred, Mul(call.monthlyTransfer, call.months))

\* k is x rounded to the nearest integer, halves upwards: k - 1/2 <= x < k + 1/2
IsRoundOf(k, x) ==
    /\ k[2] = 1
    /\ Le(Sub(Mul(Num(2), k), Num(1)), Mul(Num(2), x))
    /\ Lt(Mul(Num(2), x), Add(Mul(Num(2), k), Num(1)))

\* C10: calculateSTP returns the unrounded running values, with totalCorpus =
\* debtCorpus + equityCorpus; every breakdown entry holds rounded values, and
\* the last entry equals round(debtCorpus), round(equityCorpus) and
\* round(debtCorpus + equityCorpus) of the returned values.
C10_FinalUnroundedBreakdownRounded ==
    Returned("calculateSTP")
        => /\ Eq(ret.debtCorpus, debtCorpus)
           /\ Eq(ret.equityCorpus, equityCorpus)
           /\ Eq(ret.totalCorpus, Add(ret.debtCorpus, ret.equityCorpus))
           /\ Len(ret.breakdown) = call.months[1]
           /\ \A i \in 1..Len(ret.breakdown) :
                  /\ ret.breakdown[i].debtCorpus[2] = 1
                  /\ ret.breakdown[i].equityCorpus[2] = 1
                  /\ ret.breakdown[i].totalCorpus[2] = 1
           /\ LET last == ret.breakdown[Len(ret.breakdown)]
              IN  /\ IsRoundOf(last.debtCorpus, ret.debtCorpus)
                  /\ IsRoundOf(last.equityCorpus, ret.equityCorpus)
                  /\ IsRoundOf(last.totalCorpus, Add(ret.debtCorpus, ret.equityCorpus))

\* a call has returned fractional final values whose rounded sum differs from
\* the sum of the rounded parts
C10_Witness ==
    /\ Returned("calculateSTP")
    /\ ret.debtCorpus[2] > 1
    /\ ret.totalCorpus[2] > 1
    /\ LET last == ret.breakdown[Len(ret.breakdown)]
       IN  ~Eq(last.totalCorpus, Add(last.debtCorpus, last.equityCorpus))

\* the debt corpus of month i after its growth, before the transfer
GrownDebt(i) == Add(history[i].debtCorpus, history[i].transfer)

\* month i's transfer was capped: monthlyTransfer >= debt corpus after growth
CappedAt(i) == Le(GrownDebt(i), call.monthlyTransfer)

\* C11: in calculateSTP, once a month's transfer is capped (monthlyTransfer >=
\* debt corpus after growth) the debt corpus becomes exactly 0 and stays
\* exactly 0 in every later month, every later transfer is 0, and the returned
\* debtCorpus is 0.
C11_DepletedStaysDepleted ==
    InSTP
        => \A i \in 1..Len(history) :
               CappedAt(i)
                   => /\ Eq(history[i].debtCorpus, Num(0))
                      /\ \A j \in (i + 1)..Len(history) :
                             /\ Eq(history[j].debtCorpus, Num(0))
                             /\ Eq(history[j].transfer, Num(0))
                      /\ Eq(debtCorpus, Num(0))
                      /\ Returned("calculateSTP") => Eq(ret.debtCorpus, Num(0))

\* a call whose source grew at a positive rate, was emptied by a capped
\* positive transfer before the last month and has returned debtCorpus = 0
\* with equityCorpus > 0
C11_Witness ==
    /\ Returned("calculateSTP")
    /\ Lt(Num(0), call.debtRate)
    /\ \E i \in 1..(Len(history) - 1) :
           /\ CappedAt(i)
           /\ Lt(Num(0), history[i].transfer)
           /\ Lt(history[i].transfer, call.monthlyTransfer)
    /\ Eq(ret.debtCorpus, Num(0))
    /\ Lt(Num(0), ret.equityCorpus)

\* C12: for every calculateTopUpSIP call (integer years >= 1) the
\* corpusAtEndOfYear of the last yearlyBreakdown entry equals the returned
\* futureValue.
C12_LastEntryIsFutureValue ==
    Returned("calculateTopUpSIP")
        => /\ Len(ret.yearlyBreakdown) >= 1
           /\ Eq(ret.yearlyBreakdown[Len(ret.yearlyBreakdown)].corpusAtEndOfYear,
                 ret.futureValue)

\* a two-year call at a positive rate has returned, its last year's corpus
\* above the first year's
C12_Witness ==
    /\ Returned("calculateTopUpSIP")
    /\ Lt(Num(0), call.annualRate)
    /\ Len(ret.yearlyBreakdown) = 2
    /\ Lt(ret.yearlyBreakdown[1].corpusAtEndOfYear, ret.futureValue)

\* C13: calculateTopUpSIP(5000, 12, 10, 0).futureValue differs from
\* calculateSIP(5000, 12, 10).futureValue by at most 2 currency units: every
\* value of the first enclosure is within 2 (2000 at scale 1000) of every
\* value of the second.
C13_ZeroTopUpMatchesSIP ==
    fx.pc = "done"
        => /\ fx.corpus[2] - fx.sip[1] <= 2000
           /\ fx.sip[2] - fx.corpus[1] <= 2000

\* both runs have ended: every yearly rounding was decided (the step-up value
\* is the single integer 1161696) and the closed form lies within a unit of it
C13_Witness ==
    /\ fx.pc = "done"
    /\ fx.corpus = <<1161696000, 1161696000>>
    /\ fx.sip[1] <= fx.sip[2]
    /\ fx.sip[2] - fx.sip[1] <= 1000
    /\ fx.corpus[1] - fx.sip[2] > 0

\* C14: calculateCAGR inverts calculateLumpsum: for P > 0, rate >= 0 and
\* years > 0 the growth rate computed from P, the lump-sum future value and
\* the same years is the rate again, to within 0.001.
C14_CAGRInvertsLumpsum ==
    Returned("calculateLumpsum")
        => LET cagr == calculateCAGR(call.P, ret.futureValue, call.years)
               diff == Sub(cagr, call.annualRate)
           IN  /\ Le(diff, <<1, 1000>>)
               /\ Le(Neg(diff), <<1, 1000>>)

\* a lump sum compounded over several years at a positive rate, so the root
\* in calculateCAGR is a proper root of a value other than 1
C14_Witness ==
    /\ Returned("calculateLumpsum")
    /\ call.years[1] >= 2
    /\ Lt(Num(0), call.annualRate)
    /\ Eq(calculateCAGR(call.P, ret.futureValue, call.years), call.annualRate)

\* futureValue strictly smaller, as JavaScript's < on the two results
FVBelow(a, b) == Lt(a.futureValue, b.futureValue)

C15_SIPMonotonic ==
    Returned("calculateSIP")
        => /\ \A P \in 1..MaxP :
                  P > call.P[1]
                      => FVBelow(ret, calculateSIP(Num(P), call.annualRate, call.years))
           /\ \A ry \in SIPRateYears :
                  /\ (ry[2] = call.years[1] /\ ry[1] > call.annualRate[1])
                      => FVBelow(ret, calculateSIP(call.P, Num(ry[1]), call.years))
                  /\ (ry[1] = call.annualRate[1] /\ ry[2] > call.years[1])
                      => FVBelow(ret, calculateSIP(call.P, call.annualRate, Num(ry[2])))

C15_LumpsumMonotonic ==
    Returned("calculateLumpsum")
        => /\ \A P \in 1..MaxP :
                  P > call.P[1]
                      => FVBelow(ret, calculateLumpsum(Num(P), call.annualRate, call.years))
           /\ \A rate \in YearlyRates :
                  rate > call.annualRate[1]
                      => FVBelow(ret, calculateLumpsum(call.P, Num(rate), call.years))
           /\ \A years \in 1..MaxYears :
                  years > call.years[1]
                      => FVBelow(ret, calculateLumpsum(call.P, call.annualRate, Num(years)))

\* C15: over P > 0, rate >= 0, years > 0, with the other two parameters held
\* fixed, a larger principal, a larger rate or a longer duration gives a
\* strictly larger futureValue, for calculateSIP and for calculateLumpsum.
C15_StrictlyMonotonic == C15_SIPMonotonic /\ C15_LumpsumMonotonic

\* C16: for nominalValue >= 0, inflationRate >= 0 and years >= 0,
\* calculateInflationAdjusted returns purchasingPowerLoss = nominalValue -
\* inflationAdjustedValue, which is >= 0; at inflationRate = 0 the adjusted
\* value is exactly the nominal value and the loss is 0.
C16_InflationLoss ==
    Returned("calculateInflationAdjusted")
        => /\ Eq(ret.purchasingPowerLoss,
                 Sub(call.nominalValue, ret.inflationAdjustedValue))
           /\ Le(Num(0), ret.purchasingPowerLoss)
           /\ Eq(call.inflationRate, Num(0))
                  => /\ Eq(ret.inflationAdjustedValue, call.nominalValue)
                     /\ Eq(ret.purchasingPowerLoss, Num(0))

\* a positive amount discounted over at least one year of positive inflation:
\* the adjusted value is smaller and the loss is positive
C16_Witness ==
    /\ Returned("calculateInflationAdjusted")
    /\ Lt(Num(0), call.nominalValue)
    /\ Lt(Num(0), call.inflationRate)
    /\ Lt(Num(0), call.years)
    /\ Lt(ret.inflationAdjustedValue, call.nominalValue)
    /\ Lt(Num(0), ret.purchasingPowerLoss)

\* a defined number >= 0 (NaN fails the comparison)
NonNegative(x) == Le(Num(0), x)

C17_FlatResults ==
    /\ (Returned("calculateSIP") \/ Returned("calculateLumpsum"))
           => /\ NonNegative(ret.futureValue)
              /\ NonNegative(ret.totalInvested)
              /\ NonNegative(ret.estimatedReturns)
    /\ Returned("calculateSWP") => NonNegative(ret.totalWithdrawn)
    /\ Returned("calculateInflationAdjusted")
           => /\ NonNegative(ret.inflationAdjustedValue)
              /\ NonNegative(ret.purchasingPowerLoss)

C17_LoopResults ==
    /\ Returned("calculateTopUpSIP")
           => /\ NonNegative(ret.futureValue)
              /\ NonNegative(ret.totalInvested)
              /\ NonNegative(ret.estimatedReturns)
              /\ \A i \in 1..Len(ret.yearlyBreakdown) :
                     /\ NonNegative(ret.yearlyBreakdown[i].monthlySIP)
                     /\ NonNegative(ret.yearlyBreakdown[i].yearlyInvested)
                     /\ NonNegative(ret.yearlyBreakdown[i].corpusAtEndOfYear)
    /\ Returned("calculateSTP")
           => /\ NonNegative(ret.debtCorpus)
              /\ NonNegative(ret.equityCorpus)
              /\ NonNegative(ret.totalCorpus)
              /\ NonNegative(ret.totalTransferred)
              /\ NonNegative(ret.directEquityValue)
              /\ NonNegative(ret.debtOnlyValue)
              /\ \A i \in 1..Len(ret.breakdown) :
                     /\ NonNegative(ret.breakdown[i].debtCorpus)
                     /\ NonNegative(ret.breakdown[i].equityCorpus)
                     /\ NonNegative(ret.breakdown[i].totalCorpus)

\* C17: for non-negative amounts and rates every monetary field returned by
\* any of the calculation functions, the per-period values included, is a
\* defined number >= 0.
C17_MoneyNonNegative == C17_FlatResults /\ C17_LoopResults

\* the sum of yearlyInvested over the first k entries of a yearly breakdown
RECURSIVE SumYearlyInvested(_, _)
SumYearlyInvested(bd, k) ==
    IF k = 0 THEN Num(0) ELSE Add(SumYearlyInvested(bd, k - 1), bd[k].yearlyInvested)

\* C18: calculateTopUpSIP with integer years >= 1 returns exactly `years`
\* breakdown entries with year = 1..years in order; entry y has monthlySIP =
\* round(P x (1 + topUpRate/100)^(y - 1)) and yearlyInvested = 12 x monthlySIP,
\* and the returned totalInvested is the sum of all yearlyInvested.
C18_YearlyBreakdown ==
    Returned("calculateTopUpSIP")
        => LET bd == ret.yearlyBreakdown
           IN  /\ Len(bd) = call.years[1]
               /\ \A i \in 1..Len(bd) :
                      /\ Eq(bd[i].year, Num(i))
                      /\ IsRoundOf(bd[i].monthlySIP,
                                   Mul(call.P,
                                       MathPow(Add(Num(1), Div(call.topUpRate, Num(100))),
                                               i - 1)))
                      /\ Eq(bd[i].yearlyInvested, Mul(Num(12), bd[i].monthlySIP))
               /\ Eq(bd[1].monthlySIP, call.P)
               /\ Eq(ret.totalInvested, SumYearlyInvested(bd, Len(bd)))

\* two years with a step-up whose second-year contribution P x 3/2 is not an
\* integer, so the rounding of monthlySIP acts and the years differ
C18_Witness ==
    /\ Returned("calculateTopUpSIP")
    /\ Len(ret.yearlyBreakdown) = 2
    /\ Eq(call.P, Num(1)) /\ Eq(call.topUpRate, Num(50))
    /\ Eq(ret.yearlyBreakdown[2].monthlySIP, Num(2))
    /\ Eq(ret.totalInvested, Num(36))

\* calculateTopUpSIP has been called: its loops are running or it has returned
InTopUp == call.fn = "calculateTopUpSIP"

\* the corpus k unrounded monthly steps after it stood at s
RECURSIVE Compounded(_, _, _, _)
Compounded(s, sip, r, k) ==
    IF k = 0 THEN s
    ELSE Mul(Add(Compounded(s, sip, r, k - 1), sip), Add(Num(1), r))

\* the corpus at the start of year yy: 0, or the recorded end of the year before
YearStart(yy) ==
    IF yy = 1 THEN Num(0) ELSE yearlyBreakdown[yy - 1].corpusAtEndOfYear

\* C19: calculateTopUpSIP rounds the corpus exactly once per year, after the
\* 12th monthly step and never inside a year: inside year y the corpus is the
\* year's start compounded without rounding, where the start is the recorded
\* corpusAtEndOfYear of year y - 1, and that record is the 12 unrounded steps
\* of its year, rounded; between years the corpus is the last record.
C19_RoundedOncePerYear ==
    InTopUp
        => LET r == MonthlyRate
           IN  /\ \A i \in 1..Len(yearlyBreakdown) :
                      LET e == yearlyBreakdown[i]
                      IN  IsRoundOf(e.corpusAtEndOfYear,
                                    Compounded(YearStart(i), e.monthlySIP, r, 12))
               /\ pc = "topup_month"
                      => Eq(corpus, Compounded(YearStart(y[1]), monthlySIP, r, mi[1]))
               /\ pc = "topup_year" => Eq(corpus, YearStart(y[1]))

\* inside the second year, at a rate that leaves fractions: the first year's
\* 12 steps gave a non-integer that was rounded, and the corpus now carries
\* fractions again
C19_Witness ==
    /\ InTopUp
    /\ pc = "topup_month"
    /\ y = Num(2)
    /\ mi[1] >= 2
    /\ corpus[2] > 1
    /\ Compounded(Num(0), yearlyBreakdown[1].monthlySIP, MonthlyRate, 12)[2] > 1

\* the equity corpus after month k (0 for k = 0)
EquityAfter(k) == IF k = 0 THEN Num(0) ELSE history[k].equityCorpus

\* C20: every month m = 1..months of calculateSTP first grows the debt corpus
\* by (1 + dr), then subtracts the capped transfer from it, then sets equity
\* to (equity + transfer) x (1 + er), and appends exactly one breakdown entry
\* with month = m: the breakdown ends with `months` entries and its first
\* entry's debtCorpus is round(lumpSum x (1 + dr) - transfer).
C20_MonthlyStepOrder ==
    InSTP
        => LET dr == Div(Div(call.debtRate, Num(100)), Num(12))
               er == Div(Div(call.equityRate, Num(100)), Num(12))
           IN  /\ Len(breakdown) = Len(history)
               /\ m = Num(Len(history) + 1)
               /\ \A i \in 1..Len(history) :
                      LET grown == Mul(DebtAfter(i - 1), Add(Num(1), dr))
                          transfer == history[i].transfer
                      IN  /\ Eq(transfer, MathMin(call.monthlyTransfer, grown))
                          /\ Eq(history[i].debtCorpus, Sub(grown, transfer))
                          /\ Eq(history[i].equityCorpus,
                                Mul(Add(EquityAfter(i - 1), transfer), Add(Num(1), er)))
                          /\ Eq(breakdown[i].month, Num(i))
               /\ Len(history) >= 1
                      => IsRoundOf(breakdown[1].debtCorpus,
                                   Sub(Mul(call.lumpSum, Add(Num(1), dr)),
                                       history[1].transfer))
               /\ Returned("calculateSTP")
                      => /\ Len(ret.breakdown) = call.months[1]
                         /\ ret.breakdown = breakdown

\* a finished plan of three months with both rates positive and a transfer
\* that moved money every month: the order of growth and transfer shows in
\* the debt corpus, and the order of transfer and growth in the equity corpus
C20_Witness ==
    /\ Returned("calculateSTP")
    /\ Len(ret.breakdown) = 3
    /\ Lt(Num(0), call.debtRate) /\ Lt(Num(0), call.equityRate)
    /\ \A i \in 1..3 : Lt(Num(0), history[i].transfer)
    /\ Lt(call.lumpSum, Add(history[1].debtCorpus, history[1].transfer))
    /\ Lt(history[1].transfer, history[1].equityCorpus)

\* C21: for integer P >= 1, annualRate >= 0 and topUpRate >= 0 the
\* corpusAtEndOfYear values of calculateTopUpSIP's yearlyBreakdown strictly
\* increase from each year to the next, and each is at least the amount
\* invested up to and including its year.
C21_CorpusGrowsAndCoversInvested ==
    InTopUp
        => \A i \in 1..Len(yearlyBreakdown) :
               /\ i > 1 => Lt(yearlyBreakdown[i - 1].corpusAtEndOfYear,
                              yearlyBreakdown[i].corpusAtEndOfYear)
               /\ Le(SumYearlyInvested(yearlyBreakdown, i),
                     yearlyBreakdown[i].corpusAtEndOfYear)

\* a returned two-year breakdown at rate 0, where the corpus only just covers
\* the amount invested (it equals it) and grows by the second year's
\* contributions alone
C21_Witness ==
    /\ Returned("calculateTopUpSIP")
    /\ Len(ret.yearlyBreakdown) = 2
    /\ Eq(call.annualRate, Num(0))
    /\ Eq(ret.yearlyBreakdown[2].corpusAtEndOfYear, ret.totalInvested)
    /\ Lt(ret.yearlyBreakdown[1].corpusAtEndOfYear,
          ret.yearlyBreakdown[2].corpusAtEndOfYear)

\* the final totalCorpus is at least the value of leaving the lump sum in the
\* debt instrument
C22_AtLeastDebtOnly == Le(ret.debtOnlyValue, ret.totalCorpus)

\* the final totalCorpus is at most the value of placing the lump sum in the
\* equity instrument from month 0
C22_AtMostDirectEquity == Le(ret.totalCorpus, ret.directEquityValue)

\* C22: when equityRate >= debtRate >= 0, lumpSum > 0 and months >= 1, the
\* final totalCorpus of calculateSTP lies between its two counterfactuals:
\* debtOnlyValue <= totalCorpus <= directEquityValue.
C22_BetweenCounterfactuals ==
    (/\ Returned("calculateSTP")
     /\ Le(Num(0), call.debtRate) /\ Le(call.debtRate, call.equityRate)
     /\ Lt(Num(0), call.lumpSum) /\ Le(Num(1), call.months))
        => C22_AtLeastDebtOnly /\ C22_AtMostDirectEquity

=============================================================================
